---------------------------- MODULE Spec2Model ----------------------------
(***************************************************************************)
(* Model of the quantum-migration CLI: the AST rewrite engine              *)
(* (refactor.py), the scan engine (scanner.py) and the migrate             *)
(* orchestrator (cli.py, report.py, test_runner.py, key_manager.py).       *)
(*                                                                         *)
(* Source text is modelled as a sequence of logical lines, one statement   *)
(* per line.  A line and a statement of the syntax tree share one record   *)
(* shape, [k, names, value]:                                               *)
(*   k = "import"   names = the modules the statement binds                *)
(*   k = "from"     names = <<module>> of a from-import                    *)
(*   k = "expr"     value = the expression of an expression statement      *)
(*   k = "comment"  a comment line (text only, dropped by the parser)      *)
(*   k = "garbage"  a line that is no Python (text only)                   *)
(* An expression is [k, base, fn, args]:                                   *)
(*   k = "name"   fn = identifier                                          *)
(*   k = "const"  fn = string value                                        *)
(*   k = "call"   callee base.fn (base = "" for a plain name fn)           *)
(*   k = "stmt"   an ast.Expr statement node holding the constant fn,      *)
(*                sitting where an expression is expected (tree only)      *)
(***************************************************************************)
EXTENDS Naturals, Sequences, FiniteSets, TLC

\* ------------------------------------------------------------------ bounds
MaxStmts == 2      \* statements of a generated source text
MaxArgs == 1       \* arguments of a generated call
NumFiles == 3      \* files of the scanned tree in a migrate run
MaxOther == 1      \* files of the tree that are no scan candidates, if any
MaxResults == 2    \* results the analyzer returns in one scan
MaxBatches == 3    \* batches of a scan
MaxDepth == 2      \* depth of the directory tree below the root of a walk

\* ------------------------------------------------------- syntax constructors
Name(id) == [k |-> "name", base |-> "", fn |-> id, args |-> <<>>]
Constant(s) == [k |-> "const", base |-> "", fn |-> s, args |-> <<>>]
Call(b, f, a) == [k |-> "call", base |-> b, fn |-> f, args |-> a]
ExprNode(s) == [k |-> "stmt", base |-> "", fn |-> s, args |-> <<>>]

Import(ns) == [k |-> "import", names |-> ns, value |-> <<>>]
ImportFrom(mod) == [k |-> "from", names |-> <<mod>>, value |-> <<>>]
Expr(e) == [k |-> "expr", names |-> <<>>, value |-> <<e>>]
Comment(s) == [k |-> "comment", names |-> <<s>>, value |-> <<>>]
Garbage(s) == [k |-> "garbage", names |-> <<s>>, value |-> <<>>]

\* str.lower() on the identifiers of the model's vocabulary
Lower(s) == IF s = "RSA" THEN "rsa" ELSE s

\* ------------------------------------------------------------- refactor.py
RSA_TO_PQC_MAPPING ==
    [f \in {"newkeys", "encrypt", "decrypt", "sign", "verify"} |->
        CASE f = "newkeys" -> "oqs_generate_keypair"
          [] f = "encrypt" -> "oqs_encrypt"
          [] f = "decrypt" -> "oqs_decrypt"
          [] f = "sign" -> "oqs_sign"
          [] f = "verify" -> "oqs_verify"]

\* the f-string of the audit marker
MigrationMarker(func_name) ==
    "[Info]: Migrated rsa." \o func_name \o "() to "
        \o RSA_TO_PQC_MAPPING[func_name] \o "()"

\* the condition under which visit_Call rewrites a call
IsRsaCall(node) ==
    /\ node.k = "call"
    /\ node.base # ""
    /\ Lower(node.base) = "rsa"
    /\ node.fn \in DOMAIN RSA_TO_PQC_MAPPING

RECURSIVE RSA2PQC_visit(_)
RECURSIVE RSA2PQC_visit_list(_)

\* RSA2PQCTransformer on one expression node; the result is the list of nodes
\* that takes the node's place (visit_Call returns [new_call, comment]).
\* A rewritten call keeps node.args as they are: they are not visited.
RSA2PQC_visit(node) ==
    IF IsRsaCall(node)
    THEN << Call("", RSA_TO_PQC_MAPPING[node.fn], node.args),
            ExprNode(MigrationMarker(node.fn)) >>
    ELSE IF node.k = "call"
         THEN << [node EXCEPT !.args = RSA2PQC_visit_list(node.args)] >>
         ELSE << node >>

\* NodeTransformer.generic_visit on a list field: a list result is spliced in
RSA2PQC_visit_list(nodes) ==
    IF nodes = <<>> THEN <<>>
    ELSE RSA2PQC_visit(Head(nodes)) \o RSA2PQC_visit_list(Tail(nodes))

\* RSA2PQCTransformer on one statement: generic_visit sets the single field
\* Expr.value to whatever visit returned, a node or a list of nodes
RSA2PQC_visit_stmt(stmt) ==
    IF stmt.k = "expr"
    THEN [stmt EXCEPT !.value = RSA2PQC_visit_list(stmt.value)]
    ELSE stmt

RSA2PQCTransformer(body) ==
    [i \in 1..Len(body) |-> RSA2PQC_visit_stmt(body[i])]

\* RemoveRSAImportTransformer.visit_Import: new_names decides only whether the
\* statement is dropped; the node returned is the original one
RemoveRSA_visit_Import(node) ==
    LET new_names == SelectSeq(node.names, LAMBDA n : n # "rsa")
    IN  IF new_names # <<>> THEN <<node>> ELSE <<>>

RemoveRSA_visit_ImportFrom(node) ==
    IF node.names[1] = "rsa" THEN <<>> ELSE <<node>>

RECURSIVE RemoveRSAImportTransformer(_)
RemoveRSAImportTransformer(body) ==
    IF body = <<>> THEN <<>>
    ELSE LET s == Head(body)
             r == CASE s.k = "import" -> RemoveRSA_visit_Import(s)
                    [] s.k = "from" -> RemoveRSA_visit_ImportFrom(s)
                    [] OTHER -> <<s>>
         IN  r \o RemoveRSAImportTransformer(Tail(body))

\* AddPQCImportTransformer: found is set by any from-import of pqc_helpers
PqcImportFound(body) ==
    \E i \in 1..Len(body) : body[i].k = "from" /\ body[i].names[1] = "pqc_helpers"

AddPQCImportTransformer(body) ==
    IF PqcImportFound(body) THEN body
    ELSE <<ImportFrom("pqc_helpers")>> \o body

\* ast.parse: fails on a line that is no Python, drops comments
Parses(code) == \A i \in 1..Len(code) : code[i].k # "garbage"

ast_parse(code) == SelectSeq(code, LAMBDA l : l.k # "comment")

\* astunparse on an expression: an ast.Expr node met inside an expression is
\* written as its constant, on a line of its own inside the parentheses
RECURSIVE unparse_expr(_)
unparse_expr(e) ==
    CASE e.k = "stmt" -> Constant(e.fn)
      [] e.k = "call" ->
            [e EXCEPT !.args = [i \in 1..Len(e.args) |-> unparse_expr(e.args[i])]]
      [] OTHER -> e

\* astunparse on a statement: a list in Expr.value is written item by item,
\* each ast.Expr item after a fill(), so on a line of its own
unparse_stmt(s) ==
    IF s.k = "expr"
    THEN [i \in 1..Len(s.value) |-> Expr(unparse_expr(s.value[i]))]
    ELSE <<s>>

RECURSIVE unparse(_)
unparse(body) ==
    IF body = <<>> THEN <<>>
    ELSE unparse_stmt(Head(body)) \o unparse(Tail(body))

ErrorMarker == Comment("[Error]: AST transformation failed due to ")

refactor_code_ast(code) ==
    IF Parses(code)
    THEN unparse(AddPQCImportTransformer(RSA2PQCTransformer(
                    RemoveRSAImportTransformer(ast_parse(code)))))
    ELSE <<ErrorMarker>> \o code

\* -------------------------------------------------------------- scanner.py
batch_size == 100
None == 0          \* a result without start.line

RsaMessage == "Insecure RSA key usage detected"
Md5Message == "Insecure use of MD5 detected"

\* "rsa" in s.lower(), on the strings of the model's vocabulary
ContainsKeyword(s) ==
    \/ Lower(s) = "rsa"
    \/ s = RsaMessage
    \/ \E f \in DOMAIN RSA_TO_PQC_MAPPING : s = MigrationMarker(f)

RECURSIVE ExprContainsKeyword(_)
ExprContainsKeyword(e) ==
    \/ ContainsKeyword(e.base)
    \/ ContainsKeyword(e.fn)
    \/ \E i \in 1..Len(e.args) : ExprContainsKeyword(e.args[i])

\* "rsa" in line.lower() on one line of a file
LineContainsKeyword(line) ==
    \/ \E i \in 1..Len(line.names) : ContainsKeyword(line.names[i])
    \/ \E i \in 1..Len(line.value) : ExprContainsKeyword(line.value[i])

\* a file whose bytes are no UTF-8: open(...).read() and readlines() raise
Undecodable == <<[k |-> "binary", names |-> <<>>, value |-> <<>>]>>

Readable(content) == content # Undecodable

\* str() of a line number
Digit == <<"0", "1", "2", "3", "4", "5", "6", "7", "8", "9">>

str(n) ==
    IF n < 10 THEN Digit[n + 1]
    ELSE Digit[(n \div 10) + 1] \o Digit[(n % 10) + 1]

\* the outcomes of one analyzer invocation
AnalyzerFailures == {"no_rule_file", "windows", "nonzero_exit", "no_binary"}

\* run_semgrep: every handled failure returns {}, success returns the parsed
\* JSON object; the dict is [has_results, results]
run_semgrep(outcome, results) ==
    IF outcome \in AnalyzerFailures
    THEN [has_results |-> FALSE, results |-> <<>>]
    ELSE [has_results |-> TRUE, results |-> results]

\* semgrep_results.get("results", [])
GetResults(d) == IF d.has_results THEN d.results ELSE <<>>

\* the batch file_list[i:i+batch_size] (i counts from 0)
Batch(files, i) ==
    SubSeq(files, i + 1, IF i + batch_size < Len(files) THEN i + batch_size ELSE Len(files))

\* a merge that forgets the earlier batches when a batch fails
ExtendResults_ResetOnFailure(acc, batch_results) ==
    IF batch_results.has_results
    THEN [acc EXCEPT !.results = acc.results \o batch_results.results]
    ELSE [acc EXCEPT !.results = <<>>]

\* the merge of one batch's results into semgrep_results
ExtendResults(acc, batch_results) ==
    IF batch_results.has_results
    THEN [acc EXCEPT !.results = acc.results \o batch_results.results]
    ELSE acc

assess_risk(res) ==
    IF res.message = RsaMessage THEN "High"
    ELSE IF res.message = Md5Message THEN "High"
    ELSE "Low"

\* the Finding built from one analyzer result
StructuredFinding(res) ==
    [real_path |-> res.path,
     line |-> IF res.line = None THEN "N/A" ELSE str(res.line),
     message |-> "RSA detected",
     risk |-> assess_risk(res)]

\* the loop over semgrep_results: results whose message does not mention
\* rsa are skipped, every other result appends one Finding
RECURSIVE ProcessResults(_)
ProcessResults(results) ==
    IF results = <<>> THEN <<>>
    ELSE LET res == Head(results)
         IN  (IF ContainsKeyword(res.message)
              THEN <<StructuredFinding(res)>> ELSE <<>>)
             \o ProcessResults(Tail(results))

\* a test that takes any Finding of the file for a Finding of the line
already_reported_AnyLine(fs_, file_path, idx) ==
    \E j \in 1..Len(fs_) : fs_[j].real_path = file_path

\* a test that never finds the key reported
already_reported_Never(fs_, file_path, idx) == FALSE

\* the any(...) over findings: same real path and the line as a string
already_reported(fs_, file_path, idx) ==
    \E j \in 1..Len(fs_) :
        fs_[j].real_path = file_path /\ fs_[j].line = str(idx)

FallbackFinding(file_path, idx) ==
    [real_path |-> file_path, line |-> str(idx),
     message |-> "Unmatched RSA reference", risk |-> "Review"]

\* the text search of one file: lines idx..len(lines)
RECURSIVE FallbackLines(_, _, _, _)
FallbackLines(acc, file_path, lines, idx) ==
    IF idx > Len(lines) THEN acc
    ELSE FallbackLines(
            IF LineContainsKeyword(lines[idx])
               /\ ~already_reported(acc, file_path, idx)
            THEN Append(acc, FallbackFinding(file_path, idx))
            ELSE acc,
            file_path, lines, idx + 1)

\* the content of a candidate file: d holds the files whose content varies,
\* every other candidate file holds the one-line text of CleanText
CleanText == <<Expr(Call("", "print", <<Name("m")>>))>>

ContentOf(d, p) == IF p \in DOMAIN d THEN d[p] ELSE CleanText

\* the files whose text search can add a Finding: readable, with a keyword
\* line; the loop body does nothing for any other file
HasKeywordLine(content) ==
    Readable(content) /\ \E i \in 1..Len(content) : LineContainsKeyword(content[i])

\* the text search over the files, in list order
RECURSIVE FallbackFiles(_, _, _)
FallbackFiles(acc, files, d) ==
    IF files = <<>> THEN acc
    ELSE FallbackFiles(FallbackLines(acc, Head(files), ContentOf(d, Head(files)), 1),
                       Tail(files), d)

\* the text search over file_list (CleanText has no keyword line, so only
\* the files of d can pass the filter)
FallbackPass(acc, files, d) ==
    FallbackFiles(acc, SelectSeq(files, LAMBDA p : p \in DOMAIN d /\ HasKeywordLine(d[p])), d)

\* ------------------------------------------------------------------- state
VARIABLES
    nfiles,            \* number of candidate files of the tree, paths 1..nfiles
    disk,              \* path -> content, for the files whose content varies
    disk0,             \* disk as it was when the command started
    other,             \* number of files of the tree that are no candidates
    cfg_dry_run,       \* config["dry_run"] of scan_codebase
    file_list,         \* scan_codebase: the candidate list
    bi,                \* scan_codebase: i of the batch loop
    semgrep_results,   \* scan_codebase: the merged analyzer output
    invoked,           \* the batches handed to run_semgrep, in call order
    findings,          \* the Finding list
    spc,               \* position inside scan_codebase
    pc,                \* position inside migrate
    dry_run,           \* --dry-run
    json_output,       \* --json-output given
    exported,          \* the JSON file written by save_json
    total_files_scanned,
    asked,             \* the confirmations asked, with their answers
    files_to_refactor, \* the keys of the FileGroup dict, in insertion order
    ri,                \* position of the refactor loop
    engine_calls,      \* the paths handed to refactor_file, in call order
    writes,            \* path -> number of times the file was opened for writing
    echo,              \* the messages of click.echo about files and endings
    reissue_calls,     \* number of invocations of reissue_keys
    tests_run,         \* the results returned by run_tests
    final_report,      \* the arguments generate_final_report was called with
    code, out1, out2, rpc,  \* the engine applied to one source text
    root_path,         \* the root handed to scan_codebase, as path segments
    tree,              \* the directory tree under the root
    config,            \* the scan section of the config file
    walk_stack,        \* os.walk: the directories still to be listed
    entered,           \* os.walk: the directories listed so far, in order
    wpc                \* position inside the enumeration

svars == <<nfiles, disk, disk0, other, cfg_dry_run, file_list, bi, semgrep_results, invoked,
           findings, spc>>
mvars == <<pc, dry_run, json_output, exported, total_files_scanned, asked,
           files_to_refactor, ri, engine_calls, writes, echo, reissue_calls,
           tests_run, final_report>>
rvars == <<code, out1, out2, rpc>>
wvars == <<root_path, tree, config, walk_stack, entered, wpc>>
vars == <<svars, mvars, rvars, wvars>>

\* ----------------------------------------------------------------- inputs
VulnerableText ==
    <<Import(<<"rsa">>), Expr(Call("rsa", "encrypt", <<Name("m")>>))>>
BrokenText == <<Garbage("rsa")>>
FileTexts == {VulnerableText, BrokenText, Undecodable}

\* the files whose content varies: all of a small tree, the first file of
\* each batch of a large one; every other file holds CleanText
HotFiles(n) ==
    IF n <= NumFiles THEN 1..n ELSE {p \in 1..n : p % batch_size = 1}

LargeTreeTexts == {VulnerableText, CleanText}

Disks(n) == [HotFiles(n) -> IF n <= NumFiles THEN FileTexts ELSE LargeTreeTexts]


\* what the analyzer may say about a batch: results about its first file,
\* and one about its second file when that file's content varies
ResultsAbout(batch, hot) ==
    {[path |-> batch[1], line |-> 1, message |-> RsaMessage],
     [path |-> batch[1], line |-> None, message |-> RsaMessage],
     [path |-> batch[1], line |-> 1, message |-> Md5Message]}
    \cup {[path |-> batch[i], line |-> 1, message |-> RsaMessage] :
            i \in {j \in {2} \cap (1..Len(batch)) : batch[j] \in hot}}

SeqsUpTo(S, n) == UNION {[1..m -> S] : m \in 0..n}

\* the "results" arrays of one invocation, the scan having returned `sofar`
\* results already
AnalyzerResults(batch, hot, sofar) ==
    SeqsUpTo(ResultsAbout(batch, hot), MaxResults - sofar)

AnalyzerOutcomes == AnalyzerFailures \cup {"ok"}

NoDict == [has_results |-> TRUE, results |-> <<>>]
NoReport == [generated |-> FALSE, total_files_scanned |-> 0,
             total_vulnerable_files |-> 0, findings |-> <<>>,
             key_reissuance_done |-> FALSE]
NoExport == [saved |-> FALSE, data |-> <<>>]
\* a scan section without entries, and no tree at all
NoConfig == [include_patterns |-> <<>>, exclude_directories |-> <<>>]
NoTree == [exists |-> FALSE, top |-> <<>>, sub |-> <<>>, files |-> <<>>]

\* ------------------------------------------- scan_codebase, step by step
\* one call of run_semgrep: the files it was given and the dict it returned
Invocation(batch, returned) == [batch |-> batch, returned |-> returned]

\* os.walk with the include and exclude filters, then the two early returns
Enumerate ==
    /\ spc = "ENUMERATE"
    /\ file_list' = [i \in 1..nfiles |-> i]
    /\ IF nfiles = 0 \/ cfg_dry_run
       THEN spc' = "RETURNED" /\ UNCHANGED semgrep_results
       ELSE spc' = "ANALYZE" /\ semgrep_results' = NoDict
    /\ bi' = 0
    /\ UNCHANGED <<nfiles, disk, disk0, other, cfg_dry_run, invoked, findings, mvars, rvars, wvars>>

\* len(file_list) <= batch_size: one invocation whose dict replaces semgrep_results
AnalyzeAll ==
    /\ spc = "ANALYZE"
    /\ Len(file_list) <= batch_size
    /\ \E outcome \in AnalyzerOutcomes, results \in AnalyzerResults(file_list, DOMAIN disk, 0) :
          LET returned == run_semgrep(outcome, results)
          IN  /\ semgrep_results' = returned
              /\ invoked' = Append(invoked, Invocation(file_list, returned))
    /\ spc' = "PROCESS"
    /\ UNCHANGED <<nfiles, disk, disk0, other, cfg_dry_run, file_list, bi, findings, mvars, rvars, wvars>>

\* one iteration of the batch loop
AnalyzeBatch ==
    /\ spc = "ANALYZE"
    /\ Len(file_list) > batch_size
    /\ bi < Len(file_list)
    /\ LET batch == Batch(file_list, bi)
       IN  \E outcome \in AnalyzerOutcomes, results \in AnalyzerResults(batch, DOMAIN disk,
                                               Len(semgrep_results.results)) :
              LET batch_results == run_semgrep(outcome, results)
              IN  /\ semgrep_results' = ExtendResults(semgrep_results, batch_results)
                  /\ invoked' = Append(invoked, Invocation(batch, batch_results))
    /\ bi' = bi + batch_size
    /\ spc' = IF bi + batch_size < Len(file_list) THEN "ANALYZE" ELSE "PROCESS"
    /\ UNCHANGED <<nfiles, disk, disk0, other, cfg_dry_run, file_list, findings, mvars, rvars, wvars>>

\* the structured findings
Process ==
    /\ spc = "PROCESS"
    /\ findings' = ProcessResults(GetResults(semgrep_results))
    /\ spc' = "FALLBACK"
    /\ UNCHANGED <<nfiles, disk, disk0, other, cfg_dry_run, file_list, bi, semgrep_results,
                   invoked, mvars, rvars, wvars>>

\* the raw-text pass, then return findings
Fallback ==
    /\ spc = "FALLBACK"
    /\ findings' = FallbackPass(findings, file_list, disk)
    /\ spc' = "RETURNED"
    /\ UNCHANGED <<nfiles, disk, disk0, other, cfg_dry_run, file_list, bi, semgrep_results,
                   invoked, mvars, rvars, wvars>>

\* ------------------------------------------------------------------ cli.py
\* save_json: the dump may fail, which is echoed and swallowed
save_json(fs_, ok) == IF ok THEN [saved |-> TRUE, data |-> fs_] ELSE NoExport

\* the keys of files_to_refactor: real paths in order of first occurrence
RECURSIVE GroupKeys(_, _)
GroupKeys(fs_, acc) ==
    IF fs_ = <<>> THEN acc
    ELSE GroupKeys(Tail(fs_),
                   IF \E i \in 1..Len(acc) : acc[i] = Head(fs_).real_path
                   THEN acc ELSE Append(acc, Head(fs_).real_path))

Echo(msg, path) == [msg |-> msg, path |-> path]

\* scan_code: scan, display, optional export
ScanCode ==
    /\ pc = "SCAN_CODE"
    /\ spc = "RETURNED"
    /\ \E ok \in BOOLEAN :
          exported' = IF json_output THEN save_json(findings, ok) ELSE exported
    /\ pc' = "SCAN_CODE_DONE"
    /\ UNCHANGED <<svars, dry_run, json_output, total_files_scanned, asked,
                   files_to_refactor, ri, engine_calls, writes, echo,
                   reissue_calls, tests_run, final_report, rvars, wvars>>

\* migrate, lines 88-91: scan_codebase returned; count the files of the tree
Scanned ==
    /\ pc = "SCAN"
    /\ spc = "RETURNED"
    /\ total_files_scanned' = nfiles + other
    /\ pc' = "REPORT"
    /\ UNCHANGED <<svars, dry_run, json_output, exported, asked,
                   files_to_refactor, ri, engine_calls, writes, echo,
                   reissue_calls, tests_run, final_report, rvars, wvars>>

\* an emptiness test that is off by one
NoFindings_OffByOne(fs_) == Len(fs_) <= 1

\* migrate, line 92: `if not findings`
NoFindings(fs_) == fs_ = <<>>

\* migrate, lines 92-98: no findings ends the run, else display and export
Report ==
    /\ pc = "REPORT"
    /\ IF NoFindings(findings)
       THEN /\ echo' = Append(echo, Echo("No RSA vulnerabilities found. Exiting.", 0))
            /\ pc' = "ABORT"
            /\ UNCHANGED exported
       ELSE /\ \E ok \in BOOLEAN :
                  exported' = IF json_output THEN save_json(findings, ok)
                              ELSE exported
            /\ pc' = "CONFIRM_REFACTOR"
            /\ UNCHANGED echo
    /\ UNCHANGED <<svars, dry_run, json_output, total_files_scanned, asked,
                   files_to_refactor, ri, engine_calls, writes,
                   reissue_calls, tests_run, final_report, rvars, wvars>>

\* a confirmation whose answer is ignored
AfterRefactorAnswer_Ignored(answer) == "REFACTOR"

\* migrate, lines 100 and 136: the branch on the refactor confirmation
AfterRefactorAnswer(answer) == IF answer THEN "REFACTOR" ELSE "MANUAL_PATH"

\* migrate, lines 100-104 and 136-137: the refactor confirmation
ConfirmRefactor ==
    /\ pc = "CONFIRM_REFACTOR"
    /\ \E answer \in BOOLEAN :
          /\ asked' = Append(asked, <<"refactor", answer>>)
          /\ pc' = AfterRefactorAnswer(answer)
          /\ IF AfterRefactorAnswer(answer) = "REFACTOR"
             THEN /\ files_to_refactor' = GroupKeys(findings, <<>>)
                  /\ ri' = 1
                  /\ UNCHANGED echo
             ELSE /\ echo' = Append(echo, Echo("Auto-refactoring aborted.", 0))
                  /\ UNCHANGED <<files_to_refactor, ri>>
    /\ UNCHANGED <<svars, dry_run, json_output, exported, total_files_scanned,
                   engine_calls, writes, reissue_calls, tests_run,
                   final_report, rvars, wvars>>

\* a refactor_file that writes whatever dry_run says
refactor_file_IgnoresDryRun(content, dry) ==
    IF ~Readable(content)
    THEN [raised |-> TRUE, wrote |-> FALSE, on_disk |-> content, ret |-> content]
    ELSE [raised |-> FALSE, wrote |-> TRUE,
          on_disk |-> refactor_code_ast(content),
          ret |-> refactor_code_ast(content)]

\* refactor_file: the read raises on an unreadable file; in dry-run the
\* rewritten text is printed, nothing is written and the original text is
\* returned; else the rewritten text is written and returned
refactor_file(content, dry) ==
    IF ~Readable(content)
    THEN [raised |-> TRUE, wrote |-> FALSE, on_disk |-> content, ret |-> content]
    ELSE IF dry
    THEN [raised |-> FALSE, wrote |-> FALSE, on_disk |-> content, ret |-> content]
    ELSE [raised |-> FALSE, wrote |-> TRUE,
          on_disk |-> refactor_code_ast(content),
          ret |-> refactor_code_ast(content)]

\* migrate, line 110: new_content is written unless dry_run
MigrateWrites(dry) == ~dry

\* a loop whose try encloses the whole loop: the first failure ends it
AfterIteration_StopsOnFailure(i, raised, n) == IF raised THEN n + 1 ELSE i + 1

\* migrate, lines 108-115: the try is inside the loop body, so the loop
\* goes on to the next group whether or not the body raised
AfterIteration(i, raised, n) == i + 1

\* migrate, lines 106-115: one iteration of the refactor loop
RefactorStep ==
    /\ pc = "REFACTOR"
    /\ ri <= Len(files_to_refactor)
    /\ LET file_path == files_to_refactor[ri]
           r == refactor_file(disk[file_path], dry_run)
           again == ~r.raised /\ MigrateWrites(dry_run)
       IN  /\ engine_calls' = Append(engine_calls, file_path)
           /\ disk' = [disk EXCEPT ![file_path] = IF again THEN r.ret ELSE r.on_disk]
           /\ writes' = [writes EXCEPT ![file_path] =
                            @ + (IF r.wrote THEN 1 ELSE 0) + (IF again THEN 1 ELSE 0)]
           /\ echo' = IF r.raised
                      THEN Append(echo, Echo("Error refactoring", file_path))
                      ELSE IF again THEN Append(echo, Echo("Updated", file_path))
                      ELSE echo
           /\ ri' = AfterIteration(ri, r.raised, Len(files_to_refactor))
    /\ UNCHANGED <<nfiles, disk0, other, cfg_dry_run, file_list, bi, semgrep_results, invoked,
                   findings, spc, pc, dry_run, json_output, exported,
                   total_files_scanned, asked, files_to_refactor,
                   reissue_calls, tests_run, final_report, rvars, wvars>>

\* migrate, line 117: `not dry_run and click.confirm(...)` asks only when
\* dry_run is off
AsksReissue(dry) == ~dry

RefactorDone ==
    /\ pc = "REFACTOR"
    /\ ri > Len(files_to_refactor)
    /\ pc' = IF AsksReissue(dry_run) THEN "CONFIRM_REISSUE" ELSE "TEST"
    /\ UNCHANGED <<svars, dry_run, json_output, exported, total_files_scanned,
                   asked, files_to_refactor, ri, engine_calls, writes, echo,
                   reissue_calls, tests_run, final_report, rvars, wvars>>

ConfirmReissue ==
    /\ pc = "CONFIRM_REISSUE"
    /\ \E answer \in BOOLEAN :
          /\ asked' = Append(asked, <<"reissue", answer>>)
          /\ pc' = IF answer THEN "KEY_REISSUE" ELSE "TEST"
    /\ UNCHANGED <<svars, dry_run, json_output, exported, total_files_scanned,
                   files_to_refactor, ri, engine_calls, writes, echo,
                   reissue_calls, tests_run, final_report, rvars, wvars>>

\* migrate, line 118: reissue_keys() catches its own failures
KeyReissue ==
    /\ pc = "KEY_REISSUE"
    /\ reissue_calls' = reissue_calls + 1
    /\ pc' = "TEST"
    /\ UNCHANGED <<svars, dry_run, json_output, exported, total_files_scanned,
                   asked, files_to_refactor, ri, engine_calls, writes, echo,
                   tests_run, final_report, rvars, wvars>>

\* the results the test-validation collaborator may return
run_tests == BOOLEAN

\* a test result that is ignored
AfterTests_Ignored(success) == "FINAL_REPORT"

\* migrate, lines 122-126: the branch on test_result.get("success")
AfterTests(success) == IF success THEN "FINAL_REPORT" ELSE "ABORT"

\* migrate, lines 120-126
Test ==
    /\ pc = "TEST"
    /\ \E success \in run_tests :
          /\ tests_run' = Append(tests_run, success)
          /\ pc' = AfterTests(success)
          /\ echo' = IF AfterTests(success) = "FINAL_REPORT" THEN echo
                      ELSE Append(echo,
                          Echo("Tests failed. Please review changes manually.", 0))
    /\ UNCHANGED <<svars, dry_run, json_output, exported, total_files_scanned,
                   asked, files_to_refactor, ri, engine_calls, writes,
                   reissue_calls, final_report, rvars, wvars>>

\* generate_final_report as called by migrate, lines 128-133
generate_final_report(total, vulnerable, fs_, key_reissuance_done) ==
    [generated |-> TRUE, total_files_scanned |-> total,
     total_vulnerable_files |-> vulnerable, findings |-> fs_,
     key_reissuance_done |-> key_reissuance_done]

KeyReissuanceDoneArg(dry) == ~dry

FinalReport ==
    /\ pc = "FINAL_REPORT"
    /\ final_report' = generate_final_report(total_files_scanned,
                           Len(files_to_refactor), findings,
                           KeyReissuanceDoneArg(dry_run))
    /\ pc' = "DONE"
    /\ UNCHANGED <<svars, dry_run, json_output, exported, total_files_scanned,
                   asked, files_to_refactor, ri, engine_calls, writes, echo,
                   reissue_calls, tests_run, rvars, wvars>>

\* ------------------------------------------------------- specifications
TreeSizes == (0..NumFiles) \cup {batch_size + 1}

InitScanState ==
    /\ file_list = <<>>
    /\ bi = 0
    /\ semgrep_results = NoDict
    /\ invoked = <<>>
    /\ findings = <<>>
    /\ spc = "ENUMERATE"

InitMigrateState ==
    /\ exported = NoExport
    /\ total_files_scanned = 0
    /\ asked = <<>>
    /\ files_to_refactor = <<>>
    /\ ri = 0
    /\ engine_calls = <<>>
    /\ writes = [p \in DOMAIN disk |-> 0]
    /\ echo = <<>>
    /\ reissue_calls = 0
    /\ tests_run = <<>>
    /\ final_report = NoReport

InitEngineIdle ==
    /\ code = <<>>
    /\ out1 = <<>>
    /\ out2 = <<>>
    /\ rpc = "IDLE"

InitWalkIdle ==
    /\ root_path = <<>>
    /\ tree = NoTree
    /\ config = NoConfig
    /\ walk_stack = <<>>
    /\ entered = <<>>
    /\ wpc = "IDLE"

\* the migrate command
Init ==
    /\ nfiles \in TreeSizes
    /\ disk \in Disks(nfiles)
    /\ disk0 = disk
    /\ other \in {0, MaxOther}
    /\ cfg_dry_run \in BOOLEAN
    /\ dry_run \in BOOLEAN
    /\ json_output \in BOOLEAN
    /\ pc = "SCAN"
    /\ InitScanState
    /\ InitMigrateState
    /\ InitEngineIdle
    /\ InitWalkIdle

Next ==
    \/ Enumerate \/ AnalyzeAll \/ AnalyzeBatch \/ Process \/ Fallback
    \/ Scanned \/ Report \/ ConfirmRefactor \/ RefactorStep \/ RefactorDone
    \/ ConfirmReissue \/ KeyReissue \/ Test \/ FinalReport

Spec == Init /\ [][Next]_vars

\* the scan_code command, on trees of up to MaxBatches batches
ScanTreeSizes ==
    (0..2) \cup {k * batch_size + r : k \in 1..(MaxBatches - 1), r \in 0..1}

InitScan ==
    /\ nfiles \in ScanTreeSizes
    /\ disk \in Disks(nfiles)
    /\ disk0 = disk
    /\ other = 0
    /\ cfg_dry_run \in BOOLEAN
    /\ dry_run = FALSE
    /\ json_output = TRUE
    /\ pc = "SCAN_CODE"
    /\ InitScanState
    /\ InitMigrateState
    /\ InitEngineIdle
    /\ InitWalkIdle

NextScan ==
    \/ Enumerate \/ AnalyzeAll \/ AnalyzeBatch \/ Process \/ Fallback
    \/ ScanCode

SpecScan == InitScan /\ [][NextScan]_vars

\* ------------------------------------- the engine on generated source texts
Atoms == {Name("m")}
Callees == {<<"rsa", "encrypt">>, <<"RSA", "sign">>, <<"rsa", "PublicKey">>,
            <<"", "print">>}

InnerCalls ==
    {Call(c[1], c[2], a) : c \in Callees, a \in SeqsUpTo(Atoms, MaxArgs)}
OuterCalls ==
    {Call(c[1], c[2], a) : c \in Callees,
                           a \in SeqsUpTo(Atoms \cup InnerCalls, MaxArgs)}

Statements ==
    {Import(<<"rsa">>), Import(<<"os">>), Import(<<"os", "rsa">>),
     ImportFrom("rsa"), ImportFrom("pqc_helpers"), Garbage("rsa")}
    \cup {Expr(c) : c \in OuterCalls}

SourceTexts == SeqsUpTo(Statements, MaxStmts)

RefactorOnce ==
    /\ rpc = "START"
    /\ out1' = refactor_code_ast(code)
    /\ rpc' = "ONCE"
    /\ UNCHANGED <<svars, mvars, code, out2, wvars>>

RefactorTwice ==
    /\ rpc = "ONCE"
    /\ out2' = refactor_code_ast(out1)
    /\ rpc' = "TWICE"
    /\ UNCHANGED <<svars, mvars, code, out1, wvars>>

InitRefactor ==
    /\ code \in SourceTexts
    /\ out1 = <<>>
    /\ out2 = <<>>
    /\ rpc = "START"
    /\ nfiles = 0
    /\ disk = <<>>
    /\ disk0 = <<>>
    /\ other = 0
    /\ cfg_dry_run = FALSE
    /\ dry_run = FALSE
    /\ json_output = FALSE
    /\ pc = "IDLE"
    /\ InitScanState
    /\ InitMigrateState
    /\ InitWalkIdle

NextRefactor == RefactorOnce \/ RefactorTwice

SpecRefactor == InitRefactor /\ [][NextRefactor]_vars

\* ------------------------------------------- the file enumerator (scanner.py)
\* A path is the sequence of its segments; os.path.join(dirpath, d) appends.
\* `pattern in name` on the names of the model's vocabulary: the names that
\* are substrings of a segment
SubstringsOf(seg) ==
    CASE seg = "myvenv" -> {"myvenv", "venv"}
      [] seg = ".github" -> {".github", ".git"}
      [] OTHER -> {seg}

\* `pattern in dir_path` for a pattern without a separator
IsSubstring(pattern, dir_path) ==
    \E i \in 1..Len(dir_path) : pattern \in SubstringsOf(dir_path[i])

\* the glob patterns of the vocabulary and the text each of them ends in
Wildcards == {"*.py", "*.js", "*build"}

SuffixOf(pattern) ==
    CASE pattern = "*.py" -> ".py"
      [] pattern = "*.js" -> ".js"
      [] pattern = "*build" -> "build"

EndsWith(seg, suffix) ==
    <<seg, suffix>> \in {<<"a.py", ".py">>, <<"b.js", ".js">>, <<"build", "build">>}

\* fnmatch.fnmatch(name, pattern): `*` matches any text, separators included,
\* so "*x" matches a path that ends in x; a pattern without wildcard matches
\* the name equal to it
fnmatch(name, pattern) ==
    IF pattern \in Wildcards
    THEN name # <<>> /\ EndsWith(name[Len(name)], SuffixOf(pattern))
    ELSE name = <<pattern>>

should_include(file_name, include_patterns) ==
    \E i \in 1..Len(include_patterns) : fnmatch(<<file_name>>, include_patterns[i])

should_exclude(dir_path, exclude_patterns) ==
    \E pattern \in exclude_patterns :
        IsSubstring(pattern, dir_path) \/ fnmatch(dir_path, pattern)

default_excludes == {".git", "node_modules", "venv", "__pycache__"}

\* include_patterns of scan_codebase: the default when missing or empty
IncludePatterns(cfg) ==
    IF cfg.include_patterns = <<>> THEN <<"*.py">> ELSE cfg.include_patterns

\* exclude_dirs of scan_codebase
ExcludeDirs(cfg) ==
    default_excludes \cup {cfg.exclude_directories[i] : i \in 1..Len(cfg.exclude_directories)}

\* what os.walk lists for dirpath: the root holds the directories t.top,
\* a directory less than MaxDepth below it holds t.sub, every directory
\* holds the files t.files
Listing(t, root, dirpath) ==
    LET depth == Len(dirpath) - Len(root)
    IN  [dirnames |-> IF depth = 0 THEN t.top
                      ELSE IF depth < MaxDepth THEN t.sub ELSE <<>>,
         filenames |-> t.files]

RootPaths == {<<".">>, <<"venv">>, <<"work", "myvenv">>}
TopDirs == {<<>>, <<"src">>, <<"src", "venv">>, <<".github", "src">>,
            <<"build", ".git">>}
SubDirs == {<<>>, <<"pkg">>, <<"node_modules", "pkg">>}
FileNames == {<<"a.py">>, <<"a.py", "c.txt">>, <<"b.js", "a.py">>}
Trees == [exists : BOOLEAN, top : TopDirs, sub : SubDirs, files : FileNames]
Configs == [include_patterns : {<<>>, <<"*.py", "*.js">>},
            exclude_directories : {<<>>, <<"*build">>}]

\* scan_codebase, lines 99-104: a root that does not exist ends the scan
WalkRoot ==
    /\ wpc = "START"
    /\ IF tree.exists
       THEN walk_stack' = <<root_path>> /\ wpc' = "WALK"
       ELSE walk_stack' = <<>> /\ wpc' = "RETURNED"
    /\ file_list' = <<>>
    /\ UNCHANGED <<nfiles, disk, disk0, other, cfg_dry_run, bi, semgrep_results, invoked,
                   findings, spc, mvars, rvars, root_path, tree, config, entered>>

\* one iteration of the os.walk loop, lines 105-110: the directory on top is
\* listed, its excluded subdirectories are dropped from dirnames, its
\* included files are appended, and the walk goes on top-down into the
\* subdirectories left
WalkDir ==
    /\ wpc = "WALK"
    /\ walk_stack # <<>>
    /\ LET dirpath == Head(walk_stack)
           l == Listing(tree, root_path, dirpath)
           dirnames == SelectSeq(l.dirnames,
                          LAMBDA d : ~should_exclude(Append(dirpath, d), ExcludeDirs(config)))
           kept == SelectSeq(l.filenames,
                          LAMBDA f : should_include(f, IncludePatterns(config)))
       IN  /\ file_list' = file_list \o [i \in 1..Len(kept) |-> Append(dirpath, kept[i])]
           /\ walk_stack' = [i \in 1..Len(dirnames) |-> Append(dirpath, dirnames[i])]
                               \o Tail(walk_stack)
           /\ entered' = Append(entered, dirpath)
    /\ UNCHANGED <<nfiles, disk, disk0, other, cfg_dry_run, bi, semgrep_results, invoked,
                   findings, spc, mvars, rvars, root_path, tree, config, wpc>>

\* the walk is over: file_list is the candidate list
WalkDone ==
    /\ wpc = "WALK"
    /\ walk_stack = <<>>
    /\ wpc' = "LISTED"
    /\ UNCHANGED <<svars, mvars, rvars, root_path, tree, config, walk_stack, entered>>

InitWalk ==
    /\ root_path \in RootPaths
    /\ tree \in Trees
    /\ config \in Configs
    /\ walk_stack = <<>>
    /\ entered = <<>>
    /\ wpc = "START"
    /\ nfiles = 0
    /\ disk = <<>>
    /\ disk0 = <<>>
    /\ other = 0
    /\ cfg_dry_run = FALSE
    /\ dry_run = FALSE
    /\ json_output = FALSE
    /\ pc = "IDLE"
    /\ InitScanState
    /\ InitMigrateState
    /\ InitEngineIdle

NextWalk == WalkRoot \/ WalkDir \/ WalkDone

SpecWalk == InitWalk /\ [][NextWalk]_vars

\* ------------------------------------------------------------ properties
\* the transformation of a file fails: the read raises or the parse fails
TransformationFails(content) == ~Readable(content) \/ ~Parses(content)

EchoCount(msg, path) ==
    Cardinality({i \in 1..Len(echo) : echo[i] = Echo(msg, path)})

NeverWritten == \A p \in DOMAIN writes : writes[p] = 0

\* a Finding of the raw-text pass (the others are structured matches)
IsFallback(f) == f.message = "Unmatched RSA reference"

Min(a, b) == IF a < b THEN a ELSE b

\* the batches scan_codebase is to hand to the analyzer: consecutive slices
ExpectedBatches(files) ==
    [k \in 1..((Len(files) + batch_size - 1) \div batch_size) |->
        SubSeq(files, (k - 1) * batch_size + 1, Min(k * batch_size, Len(files)))]

\* the results of the invocations that returned a "results" array, in call order
RECURSIVE ReturnedResults(_)
ReturnedResults(invs) ==
    IF invs = <<>> THEN <<>>
    ELSE GetResults(Head(invs).returned) \o ReturnedResults(Tail(invs))

\* the analyzer phase of a scan that did not return early is over
AnalyzerFinished ==
    \/ spc \in {"PROCESS", "FALLBACK"}
    \/ spc = "RETURNED" /\ nfiles > 0 /\ ~cfg_dry_run

\* the refactor loop has been left through its end
LoopFinished ==
    \/ pc \in {"CONFIRM_REISSUE", "KEY_REISSUE", "TEST", "FINAL_REPORT", "DONE"}
    \/ pc = "ABORT" /\ tests_run # <<>>

\* C1: without dry-run, a file handed to the engine whose transformation
\* fails (unreadable or unparsable) keeps its original content, gets exactly
\* one error message and is not reported as updated.
C1_FailedFileUntouched ==
    \A i \in 1..Len(engine_calls) :
        LET p == engine_calls[i]
        IN  (~dry_run /\ TransformationFails(disk0[p])) =>
                /\ disk[p] = disk0[p]
                /\ EchoCount("Error refactoring", p) = 1
                /\ EchoCount("Updated", p) = 0

\* C2: in a dry-run no file is written (content and write count stay as at
\* the start), reissue_keys is never invoked, and the reissuance
\* confirmation is neither reached nor asked.
C2_DryRunWritesNothing ==
    dry_run =>
        /\ disk = disk0
        /\ NeverWritten
        /\ reissue_calls = 0
        /\ pc \notin {"CONFIRM_REISSUE", "KEY_REISSUE"}
        /\ \A i \in 1..Len(asked) : asked[i][1] # "reissue"

\* a finished dry-run in which the engine computed a rewrite of two files
C2_Witness ==
    /\ dry_run
    /\ pc = "DONE"
    /\ Len(engine_calls) >= 2
    /\ \E i \in 1..Len(engine_calls) :
          /\ Readable(disk0[engine_calls[i]])
          /\ refactor_code_ast(disk0[engine_calls[i]]) # disk0[engine_calls[i]]

\* C3: the key-reissuance flag of the final report is true exactly when
\* reissue_keys was invoked in the run.
C3_FlagIffReissued ==
    final_report.generated =>
        (final_report.key_reissuance_done <=> reissue_calls > 0)

\* C4: the refactor loop hands every file group to the engine exactly once,
\* in discovery order, whatever fails on the way; once the loop is over,
\* every group whose transformation did not fail is rewritten (without
\* dry-run) and reported as updated once.
C4_LoopIsolatesFailures ==
    /\ pc = "REFACTOR" => engine_calls = SubSeq(files_to_refactor, 1, ri - 1)
    /\ LoopFinished =>
          /\ engine_calls = files_to_refactor
          /\ engine_calls = GroupKeys(findings, <<>>)
          /\ \A i, j \in 1..Len(engine_calls) :
                i # j => engine_calls[i] # engine_calls[j]
          /\ ~dry_run =>
                \A i \in 1..Len(engine_calls) :
                    LET p == engine_calls[i]
                    IN  ~TransformationFails(disk0[p]) =>
                            /\ disk[p] = refactor_code_ast(disk0[p])
                            /\ EchoCount("Updated", p) = 1

\* files {A, B, C}: B's read raises, A and C end rewritten
C4_Witness ==
    /\ LoopFinished
    /\ ~dry_run
    /\ Len(files_to_refactor) = 3
    /\ ~Readable(disk0[files_to_refactor[2]])
    /\ EchoCount("Error refactoring", files_to_refactor[2]) = 1
    /\ \A i \in {1, 3} :
          LET p == files_to_refactor[i]
          IN  /\ disk[p] = refactor_code_ast(disk0[p])
              /\ disk[p] # disk0[p]
              /\ Parses(disk0[p])

\* C5: a declined refactor confirmation ends the run in MANUAL_PATH, where
\* nothing more can happen: no file was written, the engine, key reissuance,
\* test validation and final report were never invoked, and the findings
\* and their export (when saved) are still there.
C5_DeclinedEndsInManualPath ==
    /\ (\E i \in 1..Len(asked) : asked[i] = <<"refactor", FALSE>>)
          => pc = "MANUAL_PATH"
    /\ pc = "MANUAL_PATH" =>
          /\ disk = disk0
          /\ NeverWritten
          /\ engine_calls = <<>>
          /\ reissue_calls = 0
          /\ tests_run = <<>>
          /\ ~final_report.generated
          /\ findings # <<>>
          /\ json_output => (exported = NoExport \/ exported.data = findings)
          /\ ~ENABLED Next

C5_Witness ==
    /\ pc = "MANUAL_PATH"
    /\ asked = << <<"refactor", FALSE>> >>
    /\ exported.saved
    /\ exported.data = findings
    /\ Len(findings) >= 2

\* C6: in the list scan_codebase returns, two findings with the same
\* (real path, line) are never both structured nor both fallback.
C6_OnePerKeyAndKind ==
    spc = "RETURNED" =>
        \A i, j \in 1..Len(findings) :
            (i < j /\ findings[i].real_path = findings[j].real_path
                   /\ findings[i].line = findings[j].line)
                => IsFallback(findings[i]) # IsFallback(findings[j])

\* C7: for every parseable source text, the engine applied to its own
\* output returns that output.
C7_Idempotent == (rpc = "TWICE" /\ Parses(code)) => out2 = out1

\* C8: the run goes from REPORT to ABORT exactly when the scan returned no
\* finding; on that ABORT no confirmation was asked, no file was refactored,
\* and key reissuance, test validation and the final report did not happen.
C8_AbortIffNoFindings ==
    /\ (pc = "ABORT" /\ tests_run = <<>>) =>
          /\ findings = <<>>
          /\ asked = <<>>
          /\ engine_calls = <<>>
          /\ disk = disk0
          /\ NeverWritten
          /\ reissue_calls = 0
          /\ ~final_report.generated
    /\ (pc \notin {"SCAN", "REPORT"} /\ findings = <<>>) =>
          (pc = "ABORT" /\ tests_run = <<>>)

\* the analyzer ran on a non-empty tree and nothing was found
C8_Witness ==
    /\ pc = "ABORT"
    /\ findings = <<>>
    /\ nfiles > 0
    /\ invoked # <<>>

\* C9: the final report is generated only after run_tests returned success;
\* after a failure the run is in ABORT with the review-manually message as
\* its last message, no report exists, and every file reported as updated
\* still holds its rewritten content.
C9_ReportOnlyAfterTestsPass ==
    /\ (pc \in {"FINAL_REPORT", "DONE"} \/ final_report.generated)
          => tests_run = <<TRUE>>
    /\ (tests_run # <<>> /\ ~tests_run[Len(tests_run)]) =>
          /\ pc = "ABORT"
          /\ ~final_report.generated
          /\ echo # <<>>
          /\ echo[Len(echo)] =
                Echo("Tests failed. Please review changes manually.", 0)
          /\ \A p \in DOMAIN disk :
                EchoCount("Updated", p) > 0 =>
                    disk[p] = refactor_code_ast(disk0[p])

C9_Witness ==
    /\ pc = "ABORT"
    /\ tests_run = <<FALSE>>
    /\ \E p \in DOMAIN disk :
          /\ writes[p] > 0
          /\ Parses(disk0[p])
          /\ disk[p] # disk0[p]

\* C10: every batch of at most batch_size files is handed to the analyzer
\* once, in input order, whether or not earlier batches failed; a failed
\* batch adds nothing, and the merged results are the results of the
\* successful batches in batch order.
C10_BatchFailuresIsolated ==
    /\ spc = "ANALYZE" =>
          [i \in 1..Len(invoked) |-> invoked[i].batch]
              = SubSeq(ExpectedBatches(file_list), 1, Len(invoked))
    /\ AnalyzerFinished =>
          /\ [i \in 1..Len(invoked) |-> invoked[i].batch]
                = ExpectedBatches(file_list)
          /\ \A i \in 1..Len(invoked) : Len(invoked[i].batch) <= batch_size
          /\ GetResults(semgrep_results) = ReturnedResults(invoked)
    /\ spc = "FALLBACK" => findings = ProcessResults(ReturnedResults(invoked))

\* three batches, the second failed, the first and third both contributed
C10_Witness ==
    /\ spc = "RETURNED"
    /\ Len(invoked) = 3
    /\ ~invoked[2].returned.has_results
    /\ invoked[1].returned.results # <<>>
    /\ invoked[3].returned.results # <<>>
    /\ \E i, j \in 1..Len(findings) :
          /\ i < j
          /\ ~IsFallback(findings[i]) /\ findings[i].real_path = 1
          /\ ~IsFallback(findings[j]) /\ findings[j].real_path = 2 * batch_size + 1

\* the distinct real paths among the findings
VulnerablePaths(fs_) == {fs_[i].real_path : i \in 1..Len(fs_)}

\* C11: the files-scanned count of the final report is the number of
\* candidate files the scan enumerated, and its vulnerable-file count is the
\* number of distinct real paths among the findings.
C11_ReportCounts ==
    final_report.generated =>
        /\ final_report.total_files_scanned = Len(file_list)
        /\ final_report.total_vulnerable_files
              = Cardinality(VulnerablePaths(final_report.findings))

\* the (file, line) keys the raw-text pass is to flag: the keyword lines of
\* the readable candidate files
KeywordKeys ==
    UNION {{<<file_list[i], idx>> :
                idx \in {j \in 1..Len(ContentOf(disk, file_list[i])) :
                            LineContainsKeyword(ContentOf(disk, file_list[i])[j])}} :
           i \in {k \in 1..Len(file_list) : Readable(ContentOf(disk, file_list[k]))}}

FindingsAt(key) ==
    {i \in 1..Len(findings) :
        findings[i].real_path = key[1] /\ findings[i].line = str(key[2])}

\* C12: when no invocation of the analyzer yielded a result, the list
\* scan_codebase returns holds exactly one fallback Finding of risk Review
\* for every keyword line of every readable candidate file, and nothing else.
C12_FallbackOnly ==
    (spc = "RETURNED" /\ AnalyzerFinished /\ ReturnedResults(invoked) = <<>>) =>
        /\ \A key \in KeywordKeys : Cardinality(FindingsAt(key)) = 1
        /\ \A i \in 1..Len(findings) :
              /\ findings[i].message = "Unmatched RSA reference"
              /\ findings[i].risk = "Review"
              /\ \E key \in KeywordKeys : i \in FindingsAt(key)

\* the analyzer failed; one file has two keyword lines, another is unreadable
C12_Witness ==
    /\ spc = "RETURNED"
    /\ invoked # <<>>
    /\ \A i \in 1..Len(invoked) : ~invoked[i].returned.has_results
    /\ \E p \in DOMAIN disk : ~Readable(disk[p])
    /\ \E p \in DOMAIN disk :
          /\ Cardinality(FindingsAt(<<p, 1>>)) = 1
          /\ Cardinality(FindingsAt(<<p, 2>>)) = 1
          /\ Len(findings) >= 2

\* a call of rsa.<attr>, attr one of the five mapped functions, is found in
\* the expression, at its top or anywhere inside its arguments
RECURSIVE RsaCallIn(_)
RsaCallIn(e) ==
    \/ e.k = "call" /\ e.base = "rsa"
                    /\ e.fn \in {"newkeys", "encrypt", "decrypt", "sign", "verify"}
    \/ \E i \in 1..Len(e.args) : RsaCallIn(e.args[i])

\* C13: after the engine ran on parseable source, no call of rsa.<attr> with
\* attr in {newkeys, encrypt, decrypt, sign, verify} remains anywhere in the
\* output, the arguments of rewritten calls included.
C13_NoRsaCallRemains ==
    (rpc # "START" /\ Parses(code)) =>
        \A i \in 1..Len(out1) :
            \A j \in 1..Len(out1[i].value) : ~RsaCallIn(out1[i].value[j])

\* C14: after the engine ran on parseable source, no import statement of
\* the output binds rsa (a statement binding rsa among other names has lost
\* that binding, a statement binding only rsa is gone).
C14_NoImportBindsRsa ==
    (rpc # "START" /\ Parses(code)) =>
        \A i \in 1..Len(out1) :
            out1[i].k = "import" =>
                \A j \in 1..Len(out1[i].names) : out1[i].names[j] # "rsa"

\* the structured findings of the scan, as built from the merged results
StructuredPart == ProcessResults(GetResults(semgrep_results))

SameKey(f, g) == f.real_path = g.real_path /\ f.line = g.line

\* C15: the list scan_codebase returns starts with the structured findings,
\* unchanged and in their order; everything after them is a fallback Finding
\* whose (real path, line) is the key of no structured Finding.
C15_MergeRule ==
    (spc = "RETURNED" /\ AnalyzerFinished) =>
        LET n == Len(StructuredPart)
        IN  /\ Len(findings) >= n
            /\ SubSeq(findings, 1, n) = StructuredPart
            /\ \A i \in 1..n : ~IsFallback(findings[i])
            /\ \A j \in (n + 1)..Len(findings) :
                  /\ IsFallback(findings[j])
                  /\ \A i \in 1..n : ~SameKey(findings[i], findings[j])

\* a file with keyword lines 1 and 2 and a structured Finding at line 1:
\* the raw-text pass added line 2 only
C15_Witness ==
    /\ spc = "RETURNED"
    /\ \E p \in DOMAIN disk :
          /\ Readable(disk[p])
          /\ Len(disk[p]) >= 2
          /\ LineContainsKeyword(disk[p][1])
          /\ LineContainsKeyword(disk[p][2])
          /\ \E i \in FindingsAt(<<p, 1>>) : ~IsFallback(findings[i])
          /\ \A i \in FindingsAt(<<p, 1>>) : ~IsFallback(findings[i])
          /\ \E i \in FindingsAt(<<p, 2>>) : IsFallback(findings[i])

\* the directories, from the root of the walk down, that hold the file
DirsAbove(file) ==
    {SubSeq(file, 1, k) : k \in Len(root_path)..(Len(file) - 1)}

\* C16: the walk enters no directory whose path matches an exclude rule, so
\* no candidate file lies inside such a directory, whatever the root path;
\* and the basename of every candidate file matches an include pattern.
C16_EnumeratorFilters ==
    wpc \in {"WALK", "LISTED"} =>
        /\ \A i \in 1..Len(entered) :
              ~should_exclude(entered[i], ExcludeDirs(config))
        /\ \A i \in 1..Len(file_list) :
              /\ \A d \in DirsAbove(file_list[i]) :
                    ~should_exclude(d, ExcludeDirs(config))
              /\ should_include(file_list[i][Len(file_list[i])],
                                IncludePatterns(config))

=============================================================================
